---- MODULE Spec2Model ----
(***************************************************************************)
(* The append-style MessagePack encoders of msgp/write_bytes_amd64.go.     *)
(*                                                                         *)
(* A Go byte slice is modelled as a record [arr, len]: arr is the backing  *)
(* array from the slice's first byte to its capacity (cap = Len(arr)) and  *)
(* len the slice's length.  Bytes beyond len are kept, so that growing a   *)
(* slice in place exposes whatever the array held there.                   *)
(*                                                                         *)
(* Fixed-width integers are modelled by their bit patterns, as big-endian  *)
(* byte sequences (int64/uint64: 8 bytes, uint32: 4 bytes, ...), so that   *)
(* truncating and widening conversions and the 64-bit thresholds are the   *)
(* code's and not those of unbounded integers.                             *)
(***************************************************************************)
EXTENDS Integers, Sequences, FiniteSets, TLC

VARIABLES buf, prev, hist, last, total, calls, ens

vars == <<buf, prev, hist, last, total, calls, ens>>

(***************************************************************************)
(* Bounds of the model.                                                    *)
(***************************************************************************)
\* Number of chained Append* calls in one behaviour.
MaxCalls == 2
\* Largest byte count handed to ensure directly.
MaxSz == 11
\* Largest number of elements of a sequence or entries of a map.
MaxElems == 2
\* A chain goes on only from a buffer no longer than this.
MaxChainLen == 4096

(***************************************************************************)
(* Bit patterns.                                                           *)
(***************************************************************************)
Min(a, b) == IF a < b THEN a ELSE b

Pow256(j) == IF j = 0 THEN 1 ELSE IF j = 1 THEN 256 ELSE IF j = 2 THEN 65536 ELSE 16777216

\* Byte j (0 = least significant) of the two's-complement pattern of k.
BEByte(k, j) == IF j < 4 THEN (k \div Pow256(j)) % 256 ELSE IF k < 0 THEN 255 ELSE 0

\* The w-byte big-endian two's-complement pattern of the small integer k.
BE(k, w) == [j \in 1..w |-> BEByte(k, w - j)]

I64(k) == BE(k, 8)

U32(k) == BE(k, 4)

\* Unsigned comparison of two patterns of the same width.
ULess(a, b) == \E i \in 1..Len(a) : a[i] < b[i] /\ \A j \in 1..(i-1) : a[j] = b[j]

ULe(a, b) == a = b \/ ULess(a, b)

\* Signed comparison: the sign bit is flipped, then the patterns compare unsigned.
Flip(a) == [a EXCEPT ![1] = (a[1] + 128) % 256]

SLe(a, b) == ULe(Flip(a), Flip(b))

SGe(a, b) == SLe(b, a)

\* Truncating conversion to w bytes (int16(i), uint8(u), ...).
Low(a, w) == SubSeq(a, Len(a) - w + 1, Len(a))

\* Widening conversions to w bytes.
ZeroExtend(a, w) == [j \in 1..(w - Len(a)) |-> 0] \o a

SignExtend(a, w) == [j \in 1..(w - Len(a)) |-> IF a[1] >= 128 THEN 255 ELSE 0] \o a

\* The value of a pattern no wider than the model's integers.
ToNat(a) == IF Len(a) = 0 THEN 0 ELSE LET F[i \in 0..Len(a)] == IF i = 0 THEN 0 ELSE F[i-1] * 256 + a[i] IN F[Len(a)]

(***************************************************************************)
(* Slices.                                                                 *)
(***************************************************************************)
Cap(b) == Len(b.arr)

\* The slice's content, b[0:len(b)].
Bytes(b) == SubSeq(b.arr, 1, b.len)

IsPrefix(s, t) == Len(s) <= Len(t) /\ SubSeq(t, 1, Len(s)) = s

\* make([]byte, n): n zero bytes, capacity n.
Make(n) == [arr |-> [k \in 1..n |-> 0], len |-> n]

\* Stores bs into o's array from offset n on: o[n], o[n+1], ... = bs.
WriteAt(o, n, bs) == [o EXCEPT !.arr = SubSeq(o.arr, 1, n) \o bs \o SubSeq(o.arr, n + Len(bs) + 1, Len(o.arr))]

\* o[:k]
SliceTo(o, k) == [o EXCEPT !.len = k]

\* The capacity the runtime gives a slice that append must move: at least
\* double, rounded up to a multiple of 8.
GrowCap(c, need) == LET want == IF 2 * c > need THEN 2 * c ELSE need IN ((want + 7) \div 8) * 8

\* append(b, bs...)
append(b, bs) == IF Cap(b) - b.len >= Len(bs) THEN SliceTo(WriteAt(b, b.len, bs), b.len + Len(bs)) ELSE SliceTo(WriteAt(WriteAt(Make(GrowCap(Cap(b), b.len + Len(bs))), 0, Bytes(b)), b.len, bs), b.len + Len(bs))

\* ensure, growing to cap + sz instead of 2*cap + sz.
ensure_GrowBySz(b, sz) ==
  LET l == b.len
      c == Cap(b)
  IN  IF c - l < sz
      THEN LET o == Make(c + sz)
               n == Min(o.len, l)
           IN  [o |-> SliceTo(WriteAt(o, 0, SubSeq(b.arr, 1, n)), n + sz), n |-> n]
      ELSE [o |-> SliceTo(b, l + sz), n |-> l]

\* ensure, moving to new storage without copying the old content.
ensure_NoCopy(b, sz) ==
  LET l == b.len
      c == Cap(b)
  IN  IF c - l < sz
      THEN [o |-> SliceTo(Make((2 * c) + sz), l + sz), n |-> l]
      ELSE [o |-> SliceTo(b, l + sz), n |-> l]

\* ensure 'sz' extra bytes in 'b' btw len(b) and cap(b)
ensure(b, sz) ==
  LET l == b.len
      c == Cap(b)
  IN  IF c - l < sz
      THEN LET o == Make((2 * c) + sz)
               n == Min(o.len, l)
           IN  [o |-> SliceTo(WriteAt(o, 0, SubSeq(b.arr, 1, n)), n + sz), n |-> n]
      ELSE [o |-> SliceTo(b, l + sz), n |-> l]

(***************************************************************************)
(* Wire tags and the type sizes of the package (declared outside           *)
(* write_bytes_amd64.go).                                                  *)
(***************************************************************************)
mfixmap == 128
mfixarray == 144
mfixstr == 160
mnil == 192
mfalse == 194
mtrue == 195
mbin8 == 196
mbin16 == 197
mbin32 == 198
mext8 == 199
mfloat32 == 202
mfloat64 == 203
muint8 == 204
muint16 == 205
muint32 == 206
muint64 == 207
mint8 == 208
mint16 == 209
mint32 == 210
mint64 == 211
mfixext1 == 212
mfixext2 == 213
mfixext4 == 214
mfixext8 == 215
mfixext16 == 216
mstr8 == 217
mstr16 == 218
mstr32 == 219
marray16 == 220
marray32 == 221
mmap16 == 222
mmap32 == 223
mnfixint == 224

Complex64Extension == 3
Complex128Extension == 4
TimeExtension == 5

Float32Size == 5
Float64Size == 9
Complex64Size == 10
Complex128Size == 18
TimeSize == 15

\* Thresholds of package math.
MaxInt8 == 127
MaxInt16 == 32767
MaxInt32 == 2147483647
MinInt8 == -128
MinInt16 == -32768
MinInt32 == (-2147483647) - 1
MaxUint8 == 255
MaxUint16 == 65535
MaxUint32 == <<0, 0, 0, 0, 255, 255, 255, 255>>

(***************************************************************************)
(* The tag-and-payload writers the encoders call.  Each stores at offset n *)
(* of o; an integer payload is big-endian.                                 *)
(***************************************************************************)
\* A positive fixint keeps the low seven bits of u.
wfixint(u) == u[1] % 128

\* A negative fixint keeps the low five bits of i under the tag 111xxxxx.
wnfixint(i) == mnfixint + (i[1] % 32)

putMint8(o, n, i) == WriteAt(o, n, <<mint8>> \o i)

putMint16(o, n, i) == WriteAt(o, n, <<mint16>> \o i)

putMint32(o, n, i) == WriteAt(o, n, <<mint32>> \o i)

putMint64(o, n, i) == WriteAt(o, n, <<mint64>> \o i)

putMuint8(o, n, u) == WriteAt(o, n, <<muint8>> \o u)

putMuint16(o, n, u) == WriteAt(o, n, <<muint16>> \o u)

putMuint32(o, n, u) == WriteAt(o, n, <<muint32>> \o u)

putMuint64(o, n, u) == WriteAt(o, n, <<muint64>> \o u)

prefixu32(o, n, bits, pre) == WriteAt(o, n, <<pre>> \o bits)

prefixu64(o, n, bits, pre) == WriteAt(o, n, <<pre>> \o bits)

\* Two float32 (float64) bit patterns, real part first.
put232(o, n, re, im) == WriteAt(o, n, re \o im)

put264(o, n, re, im) == WriteAt(o, n, re \o im)

\* Unix seconds (8 bytes) then nanoseconds (4 bytes).
putUnix(o, n, sec, nsec) == WriteAt(o, n, sec \o nsec)

\* The headers, as the bytes written; sz is the int the encoder passes.
MapHdr(sz) == IF ULe(sz, I64(15)) THEN <<mfixmap + sz[8]>> ELSE IF ULe(sz, I64(MaxUint16)) THEN <<mmap16>> \o Low(sz, 2) ELSE <<mmap32>> \o Low(sz, 4)

ArrayHdr(sz) == IF ULe(sz, I64(15)) THEN <<mfixarray + sz[8]>> ELSE IF ULe(sz, I64(MaxUint16)) THEN <<marray16>> \o Low(sz, 2) ELSE <<marray32>> \o Low(sz, 4)

StrHdr(sz) == IF ULe(sz, I64(31)) THEN <<mfixstr + sz[8]>> ELSE IF ULe(sz, I64(MaxUint8)) THEN <<mstr8>> \o Low(sz, 1) ELSE IF ULe(sz, I64(MaxUint16)) THEN <<mstr16>> \o Low(sz, 2) ELSE <<mstr32>> \o Low(sz, 4)

BinHdr(sz) == IF ULe(sz, I64(MaxUint8)) THEN <<mbin8>> \o Low(sz, 1) ELSE IF ULe(sz, I64(MaxUint16)) THEN <<mbin16>> \o Low(sz, 2) ELSE <<mbin32>> \o Low(sz, 4)

\* Each put*Hdr stores the header at o[n] and returns the header's width.
putMapHdr(o, n, sz) == [o |-> WriteAt(o, n, MapHdr(sz)), w |-> Len(MapHdr(sz))]

putArrayHdr(o, n, sz) == [o |-> WriteAt(o, n, ArrayHdr(sz)), w |-> Len(ArrayHdr(sz))]

putStrHdr(o, n, sz) == [o |-> WriteAt(o, n, StrHdr(sz)), w |-> Len(StrHdr(sz))]

putBinHdr(o, n, sz) == [o |-> WriteAt(o, n, BinHdr(sz)), w |-> Len(BinHdr(sz))]

\* copy(o[from:], src): the number of bytes copied is the smaller length.
copy(o, from, src) == LET k == Min(o.len - from, Len(src)) IN [o |-> WriteAt(o, from, SubSeq(src, 1, k)), k |-> k]

(***************************************************************************)
(* The encoders of write_bytes_amd64.go.                                   *)
(***************************************************************************)
AppendMapHeader(b, sz) ==
  LET e == ensure(b, 8)
      h == putMapHdr(e.o, e.n, ZeroExtend(sz, 8))
  IN  SliceTo(h.o, e.n + h.w)

AppendArrayHeader(b, sz) ==
  LET e == ensure(b, 8)
      h == putArrayHdr(e.o, e.n, ZeroExtend(sz, 8))
  IN  SliceTo(h.o, b.len + h.w)

AppendNil(b) == append(b, <<mnil>>)

\* f is the float's IEEE-754 bit pattern (math.Float64bits).
AppendFloat64(b, f) ==
  LET e == ensure(b, Float64Size)
  IN  prefixu64(e.o, e.n, f, mfloat64)

AppendFloat32(b, f) ==
  LET e == ensure(b, Float32Size)
  IN  prefixu32(e.o, e.n, f, mfloat32)

AppendInt64(b, i) ==
  IF SGe(i, I64(0))
  THEN IF SLe(i, I64(MaxInt8)) THEN append(b, <<wfixint(Low(i, 1))>>)
       ELSE IF SLe(i, I64(MaxInt16)) THEN LET e == ensure(b, 3) IN putMint16(e.o, e.n, Low(i, 2))
       ELSE IF SLe(i, I64(MaxInt32)) THEN LET e == ensure(b, 5) IN putMint32(e.o, e.n, Low(i, 4))
       ELSE LET e == ensure(b, 9) IN putMint64(e.o, e.n, i)
  ELSE IF SGe(i, I64(-31)) THEN append(b, <<wnfixint(Low(i, 1))>>)
       ELSE IF SGe(i, I64(MinInt8)) THEN LET e == ensure(b, 2) IN putMint8(e.o, e.n, Low(i, 1))
       ELSE IF SGe(i, I64(MinInt16)) THEN LET e == ensure(b, 3) IN putMint16(e.o, e.n, Low(i, 2))
       ELSE IF SGe(i, I64(MinInt32)) THEN LET e == ensure(b, 5) IN putMint32(e.o, e.n, Low(i, 4))
       ELSE LET e == ensure(b, 9) IN putMint64(e.o, e.n, i)

\* int is 64 bits wide on amd64.
AppendInt(b, i) == AppendInt64(b, SignExtend(i, 8))

AppendInt8(b, i) == AppendInt64(b, SignExtend(i, 8))

AppendInt16(b, i) == AppendInt64(b, SignExtend(i, 8))

AppendInt32(b, i) == AppendInt64(b, SignExtend(i, 8))

\* AppendUint64 with the uint8 form ending one short of MaxUint8.
AppendUint64_Short8(b, u) ==
  IF ULe(u, I64(127)) THEN append(b, <<wfixint(Low(u, 1))>>)
  ELSE IF ULess(u, I64(MaxUint8)) THEN LET e == ensure(b, 2) IN putMuint8(e.o, e.n, Low(u, 1))
  ELSE IF ULe(u, I64(MaxUint16)) THEN LET e == ensure(b, 3) IN putMuint16(e.o, e.n, Low(u, 2))
  ELSE IF ULe(u, MaxUint32) THEN LET e == ensure(b, 5) IN putMuint32(e.o, e.n, Low(u, 4))
  ELSE LET e == ensure(b, 9) IN putMuint64(e.o, e.n, u)

AppendUint64(b, u) ==
  IF ULe(u, I64(127)) THEN append(b, <<wfixint(Low(u, 1))>>)
  ELSE IF ULe(u, I64(MaxUint8)) THEN LET e == ensure(b, 2) IN putMuint8(e.o, e.n, Low(u, 1))
  ELSE IF ULe(u, I64(MaxUint16)) THEN LET e == ensure(b, 3) IN putMuint16(e.o, e.n, Low(u, 2))
  ELSE IF ULe(u, MaxUint32) THEN LET e == ensure(b, 5) IN putMuint32(e.o, e.n, Low(u, 4))
  ELSE LET e == ensure(b, 9) IN putMuint64(e.o, e.n, u)

AppendUint(b, u) == AppendUint64(b, ZeroExtend(u, 8))

AppendUint8(b, u) == AppendUint64(b, ZeroExtend(u, 8))

AppendByte(b, u) == AppendUint8(b, Low(u, 1))

AppendUint16(b, u) == AppendUint64(b, ZeroExtend(u, 8))

AppendUint32(b, u) == AppendUint64(b, ZeroExtend(u, 8))

AppendBytes(b, bts) ==
  LET sz == Len(bts)
      e == ensure(b, 5 + sz)
      h == putBinHdr(e.o, e.n, I64(sz))
      hdr == e.n + h.w
      c == copy(h.o, hdr, bts)
  IN  SliceTo(c.o, hdr + c.k)

AppendBool(b, t) == IF t THEN append(b, <<mtrue>>) ELSE append(b, <<mfalse>>)

\* AppendString returning the reserved slice untrimmed.
AppendString_NoTrim(b, s) ==
  LET sz == Len(s)
      e == ensure(b, 5 + sz)
      h == putStrHdr(e.o, e.n, I64(sz))
      hdr == e.n + h.w
      c == copy(h.o, hdr, s)
  IN  c.o

AppendString(b, s) ==
  LET sz == Len(s)
      e == ensure(b, 5 + sz)
      h == putStrHdr(e.o, e.n, I64(sz))
      hdr == e.n + h.w
      c == copy(h.o, hdr, s)
  IN  SliceTo(c.o, hdr + c.k)

AppendStringFromBytes(b, s) ==
  LET sz == Len(s)
      e == ensure(b, 5 + sz)
      h == putStrHdr(e.o, e.n, I64(sz))
      hdr == e.n + h.w
      c == copy(h.o, hdr, s)
  IN  SliceTo(c.o, hdr + c.k)

\* c is [re, im], each a float32 bit pattern.
AppendComplex64(b, c) ==
  LET e == ensure(b, Complex64Size)
      o1 == WriteAt(e.o, e.n, <<mfixext8>>)
      o2 == WriteAt(o1, e.n + 1, <<Complex64Extension>>)
  IN  put232(o2, e.n + 2, c.re, c.im)

AppendComplex128(b, c) ==
  LET e == ensure(b, Complex128Size)
      o1 == WriteAt(e.o, e.n, <<mfixext16>>)
      o2 == WriteAt(o1, e.n + 1, <<Complex128Extension>>)
  IN  put264(o2, e.n + 2, c.re, c.im)

\* A time.Time: the instant (Unix seconds, nanoseconds) and its location.
UTC(t) == [t EXCEPT !.loc = "UTC"]

Unix(t) == t.sec

Nanosecond(t) == t.nsec

AppendTime(b, t) ==
  LET e == ensure(b, TimeSize)
      u == UTC(t)
      o1 == WriteAt(e.o, e.n, <<mext8>>)
      o2 == WriteAt(o1, e.n + 1, <<12>>)
      o3 == WriteAt(o2, e.n + 2, <<TimeExtension>>)
  IN  putUnix(o3, e.n + 3, Unix(u), Low(Nanosecond(u), 4))

\* m is the map's entries in the order the range statement visits them.
RECURSIVE AppendStrStrEntries(_, _, _)
AppendStrStrEntries(b, m, k) ==
  IF k > Len(m) THEN b
  ELSE AppendStrStrEntries(AppendString(AppendString(b, m[k].key), m[k].val), m, k + 1)

AppendMapStrStr(b, m) ==
  LET sz == U32(Len(m))
  IN  AppendStrStrEntries(AppendMapHeader(b, sz), m, 1)

(***************************************************************************)
(* Errors.                                                                 *)
(***************************************************************************)
NoErr == [e |-> "nil", T |-> ""]

ErrUnsupportedType(t) == [e |-> "ErrUnsupportedType", T |-> t]

(***************************************************************************)
(* Dynamically typed values (interface{}).  A value is a record:           *)
(*   type   its concrete type, "nil" for the nil interface;                *)
(*   kind   the reflect.Kind of that type;                                 *)
(*   caps   the interfaces among Marshaler, Extension the type satisfies;  *)
(*   data   the bit pattern or bytes of a scalar, string or blob;          *)
(*   elems  the elements of a sequence, the values of a map in iteration   *)
(*          order, the pointee of a pointer;                               *)
(*   keys   the keys of a map, in iteration order;                         *)
(*   out, fail, code  what the type's own encoder writes, the error it     *)
(*          returns ("" for none) and its extension type;                  *)
(*   loc    the location of a time.Time.                                   *)
(***************************************************************************)
\* Marshaler.MarshalMsg(b): the type's own encoder appends to b and may return
\* an error of its own.
MarshalMsg(i, b) == [b |-> append(b, i.out), err |-> IF i.fail = "" THEN NoErr ELSE [e |-> i.fail, T |-> ""]]

\* The extension header for a payload of l bytes (l <= 255) and its type.
ExtHdr(l, code) == IF l = 1 THEN <<mfixext1, code>> ELSE IF l = 2 THEN <<mfixext2, code>> ELSE IF l = 4 THEN <<mfixext4, code>> ELSE IF l = 8 THEN <<mfixext8, code>> ELSE IF l = 16 THEN <<mfixext16, code>> ELSE <<mext8, l, code>>

\* AppendExtension: header, declared type code, then the payload encoder's
\* output; the payload encoder's error is returned with the extended buffer.
AppendExtension(b, e) ==
  LET l == Len(e.out)
      h == ExtHdr(l, e.code)
      r == ensure(b, Len(h) + l)
  IN  [b |-> WriteAt(WriteAt(r.o, r.n, h), r.n + Len(h), e.out), err |-> IF e.fail = "" THEN NoErr ELSE [e |-> e.fail, T |-> ""]]

\* A map[string]string as AppendMapStrStr takes it.
StrStrOf(i) == [k \in 1..Len(i.keys) |-> [key |-> i.keys[k], val |-> i.elems[k].data]]

\* The parts of a complex number, and a time.Time, from a value's data.
ComplexOf(i) == [re |-> SubSeq(i.data, 1, Len(i.data) \div 2), im |-> SubSeq(i.data, (Len(i.data) \div 2) + 1, Len(i.data))]

TimeOf(i) == [sec |-> SubSeq(i.data, 1, 8), nsec |-> SubSeq(i.data, 9, 16), loc |-> i.loc]

RECURSIVE AppendIntf(_, _)
RECURSIVE AppendConcrete(_, _)
RECURSIVE AppendMapStrIntf(_, _)
RECURSIVE MapStrIntfEntries(_, _, _)
RECURSIVE RangeElems(_, _, _)
RECURSIVE ReflectElems(_, _, _)

\* The loop of AppendMapStrIntf over the entries from the k-th on.
MapStrIntfEntries(b, m, k) ==
  IF k > Len(m.keys) THEN [b |-> b, err |-> NoErr]
  ELSE LET r == AppendIntf(AppendString(b, m.keys[k]), m.elems[k])
       IN  IF r.err # NoErr THEN r ELSE MapStrIntfEntries(r.b, m, k + 1)

AppendMapStrIntf(b, m) ==
  LET sz == Low(I64(Len(m.keys)), 4)
  IN  MapStrIntfEntries(AppendMapHeader(b, sz), m, 1)

\* The loop over a []interface{}, going on after a failed element.
RangeElems_NoAbort(b, elems, k) ==
  IF k > Len(elems) THEN [b |-> b, err |-> NoErr]
  ELSE LET r == AppendIntf(b, elems[k])
           t == RangeElems(r.b, elems, k + 1)
       IN  IF t.err # NoErr THEN t ELSE [b |-> t.b, err |-> r.err]

\* The loop over a []interface{} from the k-th element on.
RangeElems(b, elems, k) ==
  IF k > Len(elems) THEN [b |-> b, err |-> NoErr]
  ELSE LET r == AppendIntf(b, elems[k])
       IN  IF r.err # NoErr THEN r ELSE RangeElems(r.b, elems, k + 1)

\* The reflect loop, starting one element late.
ReflectElems_SkipFirst(b, v, i) ==
  IF i + 1 >= Len(v.elems) THEN [b |-> b, err |-> NoErr]
  ELSE LET r == AppendIntf(b, v.elems[i + 2])
       IN  IF r.err # NoErr THEN r ELSE ReflectElems(r.b, v, i + 1)

\* The reflect loop: for i := 0; i < l; i++ over v.Index(i).Interface().
ReflectElems(b, v, i) ==
  IF i >= Len(v.elems) THEN [b |-> b, err |-> NoErr]
  ELSE LET r == AppendIntf(b, v.elems[i + 1])
       IN  IF r.err # NoErr THEN r ELSE ReflectElems(r.b, v, i + 1)

\* The concrete cases of the type switch, then the reflect fallback.
AppendConcrete(b, i) ==
  IF i.type = "bool" THEN [b |-> AppendBool(b, i.data[1] = 1), err |-> NoErr]
  ELSE IF i.type = "float32" THEN [b |-> AppendFloat32(b, i.data), err |-> NoErr]
  ELSE IF i.type = "float64" THEN [b |-> AppendFloat64(b, i.data), err |-> NoErr]
  ELSE IF i.type = "complex64" THEN [b |-> AppendComplex64(b, ComplexOf(i)), err |-> NoErr]
  ELSE IF i.type = "complex128" THEN [b |-> AppendComplex128(b, ComplexOf(i)), err |-> NoErr]
  ELSE IF i.type = "string" THEN [b |-> AppendString(b, i.data), err |-> NoErr]
  ELSE IF i.type = "[]uint8" THEN [b |-> AppendBytes(b, i.data), err |-> NoErr]
  ELSE IF i.type = "int8" THEN [b |-> AppendInt8(b, i.data), err |-> NoErr]
  ELSE IF i.type = "int16" THEN [b |-> AppendInt16(b, i.data), err |-> NoErr]
  ELSE IF i.type = "int32" THEN [b |-> AppendInt32(b, i.data), err |-> NoErr]
  ELSE IF i.type = "int64" THEN [b |-> AppendInt64(b, i.data), err |-> NoErr]
  ELSE IF i.type = "int" THEN [b |-> AppendInt64(b, SignExtend(i.data, 8)), err |-> NoErr]
  ELSE IF i.type = "uint" THEN [b |-> AppendUint64(b, ZeroExtend(i.data, 8)), err |-> NoErr]
  ELSE IF i.type = "uint8" THEN [b |-> AppendUint8(b, i.data), err |-> NoErr]
  ELSE IF i.type = "uint16" THEN [b |-> AppendUint16(b, i.data), err |-> NoErr]
  ELSE IF i.type = "uint32" THEN [b |-> AppendUint32(b, i.data), err |-> NoErr]
  ELSE IF i.type = "uint64" THEN [b |-> AppendUint64(b, i.data), err |-> NoErr]
  ELSE IF i.type = "time.Time" THEN [b |-> AppendTime(b, TimeOf(i)), err |-> NoErr]
  ELSE IF i.type = "map[string]interface {}" THEN AppendMapStrIntf(b, i)
  ELSE IF i.type = "map[string]string" THEN [b |-> AppendMapStrStr(b, StrStrOf(i)), err |-> NoErr]
  ELSE IF i.type = "[]interface {}" THEN RangeElems(AppendArrayHeader(b, Low(I64(Len(i.elems)), 4)), i.elems, 1)
  ELSE IF i.kind \in {"Array", "Slice"}
       THEN LET l == Len(i.elems) IN ReflectElems(AppendArrayHeader(b, Low(I64(l), 4)), i, 0)
       ELSE [b |-> b, err |-> ErrUnsupportedType(i.type)]

\* AppendIntf asking for Extension before Marshaler.
AppendIntf_ExtensionFirst(b, i) ==
  IF i.type = "nil" THEN [b |-> AppendNil(b), err |-> NoErr]
  ELSE IF "Extension" \in i.caps THEN AppendExtension(b, i)
  ELSE IF "Marshaler" \in i.caps THEN MarshalMsg(i, b)
  ELSE AppendConcrete(b, i)

\* AppendIntf naming the outermost value in a nested ErrUnsupportedType.
AppendIntf_NamesContainer(b, i) ==
  IF i.type = "nil" THEN [b |-> AppendNil(b), err |-> NoErr]
  ELSE IF "Marshaler" \in i.caps THEN MarshalMsg(i, b)
  ELSE IF "Extension" \in i.caps THEN AppendExtension(b, i)
  ELSE LET r == AppendConcrete(b, i) IN IF r.err.e = "ErrUnsupportedType" THEN [b |-> r.b, err |-> ErrUnsupportedType(i.type)] ELSE r

AppendIntf(b, i) ==
  IF i.type = "nil" THEN [b |-> AppendNil(b), err |-> NoErr]
  ELSE IF "Marshaler" \in i.caps THEN MarshalMsg(i, b)
  ELSE IF "Extension" \in i.caps THEN AppendExtension(b, i)
  ELSE AppendConcrete(b, i)

(***************************************************************************)
(* The wire grammar, read back: the length of the item (a scalar, a string *)
(* or blob with its payload, an extension, or a map or array header) whose *)
(* tag is at offset off of arr.                                            *)
(***************************************************************************)
WireLen(arr, off) ==
  LET t == arr[off + 1]
      u8 == arr[off + 2]
      u16 == ToNat(SubSeq(arr, off + 2, off + 3))
      u32 == ToNat(SubSeq(arr, off + 2, off + 5))
  IN  IF t < mfixstr THEN 1
      ELSE IF t < mnil THEN 1 + (t - mfixstr)
      ELSE IF t \in {mnil, mfalse, mtrue} THEN 1
      ELSE IF t = mbin8 THEN 2 + u8
      ELSE IF t = mbin16 THEN 3 + u16
      ELSE IF t = mbin32 THEN 5 + u32
      ELSE IF t = mext8 THEN 3 + u8
      ELSE IF t \in {mfloat32, muint32, mint32} THEN 5
      ELSE IF t \in {mfloat64, muint64, mint64} THEN 9
      ELSE IF t \in {muint8, mint8} THEN 2
      ELSE IF t \in {muint16, mint16} THEN 3
      ELSE IF t = mfixext1 THEN 3
      ELSE IF t = mfixext2 THEN 4
      ELSE IF t = mfixext4 THEN 6
      ELSE IF t = mfixext8 THEN 10
      ELSE IF t = mfixext16 THEN 18
      ELSE IF t = mstr8 THEN 2 + u8
      ELSE IF t = mstr16 THEN 3 + u16
      ELSE IF t = mstr32 THEN 5 + u32
      ELSE IF t \in {marray16, mmap16} THEN 3
      ELSE IF t \in {marray32, mmap32} THEN 5
      ELSE 1

\* The length of k consecutive items from offset off on.
RECURSIVE ItemsLen(_, _, _)
ItemsLen(arr, off, k) == IF k = 0 THEN 0 ELSE LET w == WireLen(arr, off) IN w + ItemsLen(arr, off + w, k - 1)

(***************************************************************************)
(* Inputs.                                                                 *)
(***************************************************************************)
\* n bytes of text.
Str(n) == [k \in 1..n |-> 97 + (k % 26)]

Pow2_31 == <<0, 0, 0, 0, 128, 0, 0, 0>>

Pow2_32 == <<0, 0, 0, 1, 0, 0, 0, 0>>

MaxInt64 == <<127, 255, 255, 255, 255, 255, 255, 255>>

MinInt64 == <<128, 0, 0, 0, 0, 0, 0, 0>>

MaxUint64 == <<255, 255, 255, 255, 255, 255, 255, 255>>

\* The initial buffers: a nil slice, a full slice, and a slice with spare
\* capacity whose array holds stale bytes beyond the length.
InitBufs == { [arr |-> <<>>, len |-> 0], [arr |-> <<mnil, mtrue>>, len |-> 2], [arr |-> <<mtrue, 7>> \o [k \in 1..20 |-> 170], len |-> 2] }

\* Every threshold of the signed ladder, from both sides.
Int64Inputs == { I64(k) : k \in {MinInt32, MinInt16 - 1, MinInt16, MinInt8 - 1, MinInt8, -33, -32, -31, -1, 0, 100, MaxInt8, MaxInt8 + 1, 1000, MaxInt16, MaxInt16 + 1, MaxInt32} } \cup { Pow2_31, <<255, 255, 255, 255, 127, 255, 255, 255>>, MaxInt64, MinInt64 }

\* Every threshold of the unsigned ladder, from both sides.
Uint64Inputs == { I64(k) : k \in {0, 127, 128, MaxUint8, MaxUint8 + 1, MaxUint16, MaxUint16 + 1, MaxInt32} } \cup { Pow2_31, MaxUint32, Pow2_32, MaxUint64 }

Int8Inputs == { BE(k, 1) : k \in {MinInt8, -33, -32, MaxInt8} }

Int16Inputs == { BE(k, 2) : k \in {MinInt8 - 1, -1, MaxInt16} }

Int32Inputs == { BE(k, 4) : k \in {MinInt16 - 1, 128, MaxInt32} }

IntInputs == { I64(-129), Pow2_31, MinInt64 }

Uint8Inputs == { BE(k, 1) : k \in {127, 128, MaxUint8} }

Uint16Inputs == { BE(k, 2) : k \in {MaxUint8 + 1, MaxUint16} }

Uint32Inputs == { BE(MaxUint16 + 1, 4), Low(MaxUint32, 4) }

UintInputs == { I64(5), Pow2_32 }

\* One input per wire form, for the chains that mix every encoder.
SomeInt64 == { I64(k) : k \in {-33, -1, 1000} } \cup { MinInt64 }

SomeUint64 == { I64(k) : k \in {128, MaxUint16 + 1} } \cup { Pow2_32 }

SmallLens == {0, 2, 32, MaxUint8 + 1}

BigLens == {MaxUint16, MaxUint16 + 1}

\* Payloads of 65535 bytes and more are appended to the initial buffers only.
PayloadLens(n) == IF n = 0 THEN SmallLens \cup BigLens ELSE SmallLens

HeaderSizes == { U32(k) : k \in {3, 16, MaxUint16 + 1} } \cup { Low(MaxUint32, 4) }

Float64Inputs == { <<63, 248, 0, 0, 0, 0, 0, 0>> }

Float32Inputs == { <<127, 192, 0, 0>> }

Complex64Inputs == { [re |-> <<63, 192, 0, 0>>, im |-> <<191, 128, 0, 0>>] }

Complex128Inputs == { [re |-> <<63, 248, 0, 0, 0, 0, 0, 0>>, im |-> <<0, 0, 0, 0, 0, 0, 0, 1>>] }

TimeInputs == { [sec |-> I64(-1), nsec |-> I64(999999999), loc |-> "Local"] }

StrStrEntries == { [key |-> Str(1), val |-> <<>>], [key |-> Str(2), val |-> Str(32)] }

\* The sequences of at most n elements of S.
SeqsUpTo(S, n) == UNION { [1..k -> S] : k \in 0..n }

\* A map's entries in iteration order: the keys are distinct.
StrStrMaps == { m \in SeqsUpTo(StrStrEntries, MaxElems) : \A i, j \in 1..Len(m) : m[i].key = m[j].key => i = j }

(***************************************************************************)
(* The chain of calls: each call receives the buffer the previous call     *)
(* returned.  prev is that buffer, hist the content of every earlier       *)
(* buffer, total the sum of the lengths of the items written, last the     *)
(* call made.                                                              *)
(***************************************************************************)
NoEns == [b |-> [arr |-> <<>>, len |-> 0], sz |-> 0, o |-> [arr |-> <<>>, len |-> 0], n |-> 0, done |-> FALSE]

NoCall == [op |-> "none", arg |-> <<>>, err |-> NoErr]

Init ==
  /\ buf \in InitBufs
  /\ prev = buf
  /\ hist = <<>>
  /\ last = NoCall
  /\ total = 0
  /\ calls = 0
  /\ ens = NoEns

\* A call of op on arg that returned nb, having written `items` items.
Step(op, arg, nb, items) ==
  /\ calls < MaxCalls
  /\ buf.len <= MaxChainLen
  /\ buf' = nb
  /\ prev' = buf
  /\ hist' = Append(hist, Bytes(buf))
  /\ last' = [op |-> op, arg |-> arg, err |-> NoErr]
  /\ total' = total + ItemsLen(nb.arr, buf.len, items)
  /\ calls' = calls + 1
  /\ UNCHANGED ens

CallAppendNil == Step("AppendNil", <<>>, AppendNil(buf), 1)

CallAppendBool == \E t \in BOOLEAN : Step("AppendBool", t, AppendBool(buf, t), 1)

CallAppendFloat64 == \E f \in Float64Inputs : Step("AppendFloat64", f, AppendFloat64(buf, f), 1)

CallAppendFloat32 == \E f \in Float32Inputs : Step("AppendFloat32", f, AppendFloat32(buf, f), 1)

CallAppendInt64 == \E i \in SomeInt64 : Step("AppendInt64", i, AppendInt64(buf, i), 1)

CallAppendUint64 == \E u \in SomeUint64 : Step("AppendUint64", u, AppendUint64(buf, u), 1)

CallAppendMapHeader == \E sz \in HeaderSizes : Step("AppendMapHeader", sz, AppendMapHeader(buf, sz), 1)

CallAppendArrayHeader == \E sz \in HeaderSizes : Step("AppendArrayHeader", sz, AppendArrayHeader(buf, sz), 1)

CallAppendBytes == \E n \in PayloadLens(calls) : Step("AppendBytes", Str(n), AppendBytes(buf, Str(n)), 1)

CallAppendString == \E n \in PayloadLens(calls) : Step("AppendString", Str(n), AppendString(buf, Str(n)), 1)

CallAppendStringFromBytes == \E n \in PayloadLens(calls) : Step("AppendStringFromBytes", Str(n), AppendStringFromBytes(buf, Str(n)), 1)

CallAppendComplex64 == \E c \in Complex64Inputs : Step("AppendComplex64", c, AppendComplex64(buf, c), 1)

CallAppendComplex128 == \E c \in Complex128Inputs : Step("AppendComplex128", c, AppendComplex128(buf, c), 1)

CallAppendTime == \E t \in TimeInputs : Step("AppendTime", t, AppendTime(buf, t), 1)

CallAppendMapStrStr == \E m \in StrStrMaps : Step("AppendMapStrStr", m, AppendMapStrStr(buf, m), 1 + 2 * Len(m))

\* The chain's next-state relation follows the dynamic values, below.

(***************************************************************************)
(* The integer encoders and their typed wrappers, on every threshold.      *)
(***************************************************************************)
IntInt64 == \E i \in Int64Inputs : Step("AppendInt64", i, AppendInt64(buf, i), 1)

IntInt == \E i \in IntInputs : Step("AppendInt", i, AppendInt(buf, i), 1)

IntInt8 == \E i \in Int8Inputs : Step("AppendInt8", i, AppendInt8(buf, i), 1)

IntInt16 == \E i \in Int16Inputs : Step("AppendInt16", i, AppendInt16(buf, i), 1)

IntInt32 == \E i \in Int32Inputs : Step("AppendInt32", i, AppendInt32(buf, i), 1)

IntUint64 == \E u \in Uint64Inputs : Step("AppendUint64", u, AppendUint64(buf, u), 1)

IntUint == \E u \in UintInputs : Step("AppendUint", u, AppendUint(buf, u), 1)

IntUint8 == \E u \in Uint8Inputs : Step("AppendUint8", u, AppendUint8(buf, u), 1)

IntByte == \E u \in Uint8Inputs : Step("AppendByte", u, AppendByte(buf, u), 1)

IntUint16 == \E u \in Uint16Inputs : Step("AppendUint16", u, AppendUint16(buf, u), 1)

IntUint32 == \E u \in Uint32Inputs : Step("AppendUint32", u, AppendUint32(buf, u), 1)

NextInts ==
  \/ IntInt64
  \/ IntInt
  \/ IntInt8
  \/ IntInt16
  \/ IntInt32
  \/ IntUint64
  \/ IntUint
  \/ IntUint8
  \/ IntByte
  \/ IntUint16
  \/ IntUint32

SpecInts == Init /\ [][NextInts]_vars

(***************************************************************************)
(* ensure, applied to every buffer of a bounded length and capacity.       *)
(***************************************************************************)
\* The buffers of capacity c <= MaxSz and length l <= c, with nonzero content
\* in the whole array.
EnsureBufs == { [arr |-> [k \in 1..c |-> 16 + k], len |-> l] : c \in 0..MaxSz, l \in 0..MaxSz } \ { b \in { [arr |-> [k \in 1..c |-> 16 + k], len |-> l] : c \in 0..MaxSz, l \in 0..MaxSz } : b.len > Len(b.arr) }

InitEnsure ==
  /\ buf \in EnsureBufs
  /\ prev = buf
  /\ hist = <<>>
  /\ last = NoCall
  /\ total = 0
  /\ calls = 0
  /\ \E sz \in 0..MaxSz : ens = [b |-> buf, sz |-> sz, o |-> buf, n |-> 0, done |-> FALSE]

CallEnsure ==
  /\ ~ens.done
  /\ LET r == ensure(ens.b, ens.sz) IN ens' = [ens EXCEPT !.o = r.o, !.n = r.n, !.done = TRUE]
  /\ UNCHANGED <<buf, prev, hist, last, total, calls>>

NextEnsure == CallEnsure

SpecEnsure == InitEnsure /\ [][NextEnsure]_vars

(***************************************************************************)
(* The wire forms the integer ladders are to produce.                      *)
(***************************************************************************)
\* The narrowest of 1, 2, 4, 8 bytes that holds the signed (unsigned) value.
SignedWidth(i) == IF SignExtend(Low(i, 1), 8) = i THEN 1 ELSE IF SignExtend(Low(i, 2), 8) = i THEN 2 ELSE IF SignExtend(Low(i, 4), 8) = i THEN 4 ELSE 8

UnsignedWidth(u) == IF ZeroExtend(Low(u, 1), 8) = u THEN 1 ELSE IF ZeroExtend(Low(u, 2), 8) = u THEN 2 ELSE IF ZeroExtend(Low(u, 4), 8) = u THEN 4 ELSE 8

SignedTag(w) == IF w = 1 THEN mint8 ELSE IF w = 2 THEN mint16 ELSE IF w = 4 THEN mint32 ELSE mint64

UnsignedTag(w) == IF w = 1 THEN muint8 ELSE IF w = 2 THEN muint16 ELSE IF w = 4 THEN muint32 ELSE muint64

\* -32..127 is one byte, the value's own low byte; otherwise tag and payload.
WireInt64(i) == IF SignedWidth(i) = 1 /\ (i[8] < 128 \/ i[8] >= mnfixint) THEN <<i[8]>> ELSE <<SignedTag(SignedWidth(i))>> \o Low(i, SignedWidth(i))

WireUint64(u) == IF UnsignedWidth(u) = 1 /\ u[8] < 128 THEN <<u[8]>> ELSE <<UnsignedTag(UnsignedWidth(u))>> \o Low(u, UnsignedWidth(u))

\* The length the unsigned ladder gives u, by its ranges.
UintLen(u) == IF ULe(u, I64(127)) THEN 1 ELSE IF ULe(u, I64(255)) THEN 2 ELSE IF ULe(u, I64(65535)) THEN 3 ELSE IF ULe(u, MaxUint32) THEN 5 ELSE 9

\* The bytes the last call appended.
Appended == SubSeq(buf.arr, prev.len + 1, buf.len)

SignedOps == {"AppendInt64", "AppendInt", "AppendInt8", "AppendInt16", "AppendInt32"}

UnsignedOps == {"AppendUint64", "AppendUint", "AppendUint8", "AppendByte", "AppendUint16", "AppendUint32"}

(***************************************************************************)
(* C1.  AppendInt64(b, v) extends b by one byte when -32 <= v <= 127 (the  *)
(* negative fixint for -32..-1, the positive fixint for 0..127), and       *)
(* otherwise by the tag and big-endian payload of the smallest of int8,    *)
(* int16, int32, int64 that holds v.  The code takes the int8 form for     *)
(* v = -32: this statement is violated there.                              *)
(***************************************************************************)
C1_Int64Ladder == last.op = "AppendInt64" => Bytes(buf) = Bytes(prev) \o WireInt64(last.arg)

\* What the code does instead: the claimed ladder everywhere but at -32.
Int64LadderButMinus32 == (last.op \in SignedOps /\ SignExtend(last.arg, 8) # I64(-32)) => Bytes(buf) = Bytes(prev) \o WireInt64(SignExtend(last.arg, 8))

Int64AtMinus32 == (last.op \in SignedOps /\ SignExtend(last.arg, 8) = I64(-32)) => Appended = <<mint8, mnfixint>>

(***************************************************************************)
(* C9.  AppendUint64(b, u) extends b by the narrowest form that holds u:   *)
(* 1 byte up to 127, 2 bytes up to 255, 3 bytes up to 65535, 5 bytes up to *)
(* 2^32-1, 9 bytes beyond; the typed wrappers give the bytes of            *)
(* AppendUint64 of the widened value.                                      *)
(***************************************************************************)
C9_UintLadder == last.op \in UnsignedOps => LET u == ZeroExtend(last.arg, 8) IN /\ Bytes(buf) = Bytes(prev) \o WireUint64(u) /\ buf.len = prev.len + UintLen(u)

\* A wrapper has encoded a value of the uint32 form, after an earlier call.
C9_Witness == calls = 2 /\ last.op = "AppendUint32" /\ last.arg = Low(MaxUint32, 4) /\ Appended = <<muint32, 255, 255, 255, 255>>

(***************************************************************************)
(* C3.  Every buffer returned along a chain of Append* calls has every     *)
(* earlier buffer of the chain as a prefix, whether the call grew the      *)
(* buffer in place or moved it.                                            *)
(***************************************************************************)
C3_PrefixPreserved == \A k \in 1..Len(hist) : IsPrefix(hist[k], Bytes(buf))

\* A first call wrote in place into spare capacity, a second one moved the buffer.
C3_Witness == calls = 2 /\ Len(hist[1]) > 0 /\ Len(hist[2]) > Len(hist[1]) /\ Cap(prev) = 22 /\ Cap(buf) > Cap(prev) /\ last.op = "AppendString"

(***************************************************************************)
(* C8.  Along a chain of calls from a buffer of length L the buffer's      *)
(* length is L plus the sum of the lengths of the values written: the      *)
(* encoders that reserve more than they write return the buffer trimmed to *)
(* prior length + header width + payload length.                           *)
(***************************************************************************)
StartLen == IF hist = <<>> THEN buf.len ELSE Len(hist[1])

C8_LengthAccounting ==
  /\ buf.len = StartLen + total
  /\ last.op \in {"AppendString", "AppendStringFromBytes"} => buf.len = prev.len + Len(StrHdr(I64(Len(last.arg)))) + Len(last.arg)
  /\ last.op = "AppendBytes" => buf.len = prev.len + Len(BinHdr(I64(Len(last.arg)))) + Len(last.arg)
  /\ last.op = "AppendMapHeader" => buf.len = prev.len + Len(MapHdr(ZeroExtend(last.arg, 8)))
  /\ last.op = "AppendArrayHeader" => buf.len = prev.len + Len(ArrayHdr(ZeroExtend(last.arg, 8)))

\* A two-byte string after a map header: 7 bytes reserved, 3 kept.
C8_Witness == calls = 2 /\ last.op = "AppendString" /\ Len(last.arg) = 2 /\ buf.len = prev.len + 3 /\ prev.arr[prev.len] = mfixmap + 3 /\ total = 4

(***************************************************************************)
(* C7.  ensure(b, sz) returns the offset n = len(b) and a buffer of length *)
(* len(b) + sz whose first len(b) bytes are b's; with cap - len >= sz the  *)
(* storage is b's own, otherwise new storage of capacity 2*cap + sz.       *)
(***************************************************************************)
C7_Ensure ==
  ens.done =>
    LET l == ens.b.len
        c == Cap(ens.b)
    IN  /\ ens.n = l
        /\ ens.o.len = l + ens.sz
        /\ SubSeq(ens.o.arr, 1, l) = Bytes(ens.b)
        /\ c - l >= ens.sz => ens.o.arr = ens.b.arr
        /\ c - l < ens.sz => Cap(ens.o) = (2 * c) + ens.sz
        /\ ens.o.len <= Cap(ens.o)

\* A non-empty buffer without room has been moved.
C7_Witness == ens.done /\ ens.b.len > 0 /\ Cap(ens.b) - ens.b.len < ens.sz /\ Cap(ens.o) > Cap(ens.b)

(***************************************************************************)
(* The dynamic dispatcher, applied once to a value drawn from a bounded    *)
(* set.                                                                    *)
(***************************************************************************)
Val(t, k, d) == [type |-> t, kind |-> k, caps |-> {}, data |-> d, elems |-> <<>>, keys |-> <<>>, out |-> <<>>, fail |-> "", code |-> 0, loc |-> ""]

\* A value whose type has an encoder of its own: it writes out, returns fail.
Own(t, k, c, out, fail) == [Val(t, k, <<>>) EXCEPT !.caps = c, !.out = out, !.fail = fail, !.code = 9]

NilV == Val("nil", "Invalid", <<>>)

IntV == Val("int", "Int", I64(1000))

StringV == Val("string", "String", Str(2))

ChanV == Val("chan int", "Chan", <<>>)

\* A *int pointing to an int.
PtrV == [Val("*int", "Ptr", <<>>) EXCEPT !.elems = <<IntV>>]

MarshalerV == Own("main.M", "Struct", {"Marshaler"}, <<193, 1>>, "")

FailingMarshalerV == Own("main.MF", "Struct", {"Marshaler"}, <<193>>, "errMarshal")

FailingExtensionV == Own("main.EF", "Struct", {"Extension"}, <<5, 6, 7>>, "errExtension")

\* One value of each type the type switch names.
Scalars == {
  Val("bool", "Bool", <<1>>), Val("bool", "Bool", <<0>>),
  Val("float32", "Float32", <<63, 192, 0, 0>>), Val("float64", "Float64", <<63, 248, 0, 0, 0, 0, 0, 0>>),
  Val("complex64", "Complex64", <<63, 192, 0, 0, 191, 128, 0, 0>>),
  Val("complex128", "Complex128", <<63, 248, 0, 0, 0, 0, 0, 0, 0, 0, 0, 0, 0, 0, 0, 1>>),
  Val("string", "String", Str(32)), Val("[]uint8", "Slice", Str(3)),
  Val("int8", "Int8", BE(-33, 1)), Val("int16", "Int16", BE(-32, 2)), Val("int32", "Int32", BE(MaxInt16 + 1, 4)),
  Val("int64", "Int64", MinInt64), Val("int", "Int", I64(-1)),
  Val("uint", "Uint", Pow2_32), Val("uint8", "Uint8", BE(200, 1)), Val("uint16", "Uint16", BE(MaxUint8 + 1, 2)),
  Val("uint32", "Uint32", Low(MaxUint32, 4)), Val("uint64", "Uint64", MaxUint64),
  [Val("time.Time", "Struct", I64(1000) \o I64(999999999)) EXCEPT !.loc = "Local"] }

\* Values with encoders of their own, some also sequence-shaped.
OwnEncoders == {
  MarshalerV, FailingMarshalerV, FailingExtensionV,
  Own("main.E", "Struct", {"Extension"}, <<5, 6, 7, 8>>, ""),
  Own("main.ME", "Struct", {"Marshaler", "Extension"}, <<193, 2>>, ""),
  Own("main.MEF", "Struct", {"Marshaler", "Extension"}, <<193, 3>>, "errBoth"),
  [Own("main.MList", "Slice", {"Marshaler"}, <<193, 4>>, "") EXCEPT !.elems = <<IntV>>],
  [Own("main.EList", "Slice", {"Extension"}, <<9>>, "") EXCEPT !.elems = <<IntV, ChanV>>],
  [Own("*main.PM", "Ptr", {"Marshaler"}, <<193, 5>>, "") EXCEPT !.elems = <<IntV>>] }

\* Values of types no rule of the dispatcher takes.
Rejected == { ChanV, PtrV, Val("struct {}", "Struct", <<>>), Val("map[int]int", "Map", <<>>), Val("func()", "Func", <<>>), [Val("*[]interface {}", "Ptr", <<>>) EXCEPT !.elems = <<Val("[]interface {}", "Slice", <<>>)>>] }

\* The elements composites are built from.
Leaves == { NilV, IntV, StringV, MarshalerV, FailingMarshalerV, FailingExtensionV, ChanV, PtrV }

\* An array type's name tells its length.
ArrayType(n) == IF n = 0 THEN "[0]interface {}" ELSE IF n = 1 THEN "[1]interface {}" ELSE IF n = 2 THEN "[2]interface {}" ELSE IF n = 3 THEN "[3]interface {}" ELSE "[4]interface {}"

\* The sequence-shaped values with elements es: a []interface{}, a named
\* slice type and an array, the last two left to the reflect fallback.
IfaceSlice(es) == [Val("[]interface {}", "Slice", <<>>) EXCEPT !.elems = es]

NamedSlice(es) == [Val("main.List", "Slice", <<>>) EXCEPT !.elems = es]

Array(es) == [Val(ArrayType(Len(es)), "Array", <<>>) EXCEPT !.elems = es]

\* A map[string]interface{} visited in the order of es, under distinct keys.
IntfMap(es) == [Val("map[string]interface {}", "Map", <<>>) EXCEPT !.elems = es, !.keys = [k \in 1..Len(es) |-> Str(k)]]

StrStrMap(es) == [Val("map[string]string", "Map", <<>>) EXCEPT !.elems = es, !.keys = [k \in 1..Len(es) |-> Str(k)]]

Containers(S) == UNION { {IfaceSlice(es), NamedSlice(es), Array(es), IntfMap(es)} : es \in SeqsUpTo(S, MaxElems) }

\* Composites nested in composites.
Inner == { IntV, ChanV, FailingMarshalerV, IfaceSlice(<<IntV, ChanV>>), NamedSlice(<<StringV>>), IntfMap(<<NilV, PtrV>>), Array(<<IntV>>) }

Values == {NilV} \cup Scalars \cup OwnEncoders \cup Rejected \cup Containers(Leaves) \cup Containers(Inner) \cup { StrStrMap(es) : es \in SeqsUpTo({StringV, Val("string", "String", <<>>)}, MaxElems) }

InitIntf ==
  /\ buf \in InitBufs
  /\ prev = buf
  /\ hist = <<>>
  /\ \E v \in Values : last = [op |-> "input", arg |-> v, err |-> NoErr]
  /\ total = 0
  /\ calls = 0
  /\ ens = NoEns

\* A call of the dispatching operation op that returned r.
Dispatched(op, r) ==
  /\ buf' = r.b
  /\ prev' = buf
  /\ hist' = Append(hist, Bytes(buf))
  /\ last' = [last EXCEPT !.op = op, !.err = r.err]
  /\ calls' = calls + 1
  /\ UNCHANGED <<total, ens>>

CallAppendIntf ==
  /\ last.op = "input"
  /\ Dispatched("AppendIntf", AppendIntf(buf, last.arg))

CallAppendMapStrIntf ==
  /\ last.op = "input"
  /\ last.arg.type = "map[string]interface {}"
  /\ Dispatched("AppendMapStrIntf", AppendMapStrIntf(buf, last.arg))

NextIntf ==
  \/ CallAppendIntf
  \/ CallAppendMapStrIntf

SpecIntf == InitIntf /\ [][NextIntf]_vars

(***************************************************************************)
(* The chain of calls, with the dispatcher among the encoders.  A caller   *)
(* discards the buffer of a failed call, so the chain goes on after a      *)
(* successful one only.                                                    *)
(***************************************************************************)
ChainValues == { NamedSlice(<<IntV, StringV>>), IfaceSlice(<<NilV, IfaceSlice(<<IntV>>)>>), IntfMap(<<IntV, ChanV>>), IntfMap(<<StringV>>), StrStrMap(<<StringV>>) }

\* The number of items (scalars, strings, headers) a value is encoded as.
RECURSIVE Items(_)
Items(v) ==
  IF v.type \in {"map[string]interface {}", "map[string]string"} THEN 1 + Len(v.keys) + Items(IfaceSlice(v.elems)) - 1
  ELSE IF v.kind \in {"Array", "Slice"} /\ v.type # "[]uint8" THEN 1 + (IF v.elems = <<>> THEN 0 ELSE Items(v.elems[1]) + Items(IfaceSlice(Tail(v.elems))) - 1)
  ELSE 1

CallAppendIntfOk ==
  \E v \in ChainValues :
    LET r == AppendIntf(buf, v) IN
    /\ r.err = NoErr
    /\ Step("AppendIntf", v, r.b, Items(v))

Next ==
  \/ CallAppendNil
  \/ CallAppendBool
  \/ CallAppendFloat64
  \/ CallAppendFloat32
  \/ CallAppendInt64
  \/ CallAppendUint64
  \/ CallAppendMapHeader
  \/ CallAppendArrayHeader
  \/ CallAppendBytes
  \/ CallAppendString
  \/ CallAppendStringFromBytes
  \/ CallAppendComplex64
  \/ CallAppendComplex128
  \/ CallAppendTime
  \/ CallAppendMapStrStr
  \/ CallAppendIntfOk

Spec == Init /\ [][Next]_vars

(***************************************************************************)
(* What the dispatcher's claims speak of.                                  *)
(***************************************************************************)
EmptyBuf == [arr |-> <<>>, len |-> 0]

\* The types the type switch names.
SwitchTypes == {"bool", "float32", "float64", "complex64", "complex128", "string", "[]uint8", "int8", "int16", "int32", "int64", "int", "uint", "uint8", "uint16", "uint32", "uint64", "time.Time", "map[string]interface {}", "map[string]string", "[]interface {}"}

Plain(v) == v.type # "nil" /\ v.caps = {} /\ v.type \notin SwitchTypes

\* A sequence-shaped value only the reflect fallback takes.
ReflectSeq(v) == Plain(v) /\ v.kind \in {"Array", "Slice"}

\* A value of a type no rule takes.
Unsupported(v) == Plain(v) /\ v.kind \notin {"Array", "Slice"}

\* A composite whose elements the dispatcher visits.
Composite(v) == v.caps = {} /\ (v.type \in {"[]interface {}", "map[string]interface {}"} \/ ReflectSeq(v))

RECURSIVE Flatten(_)
Flatten(ss) == IF ss = <<>> THEN <<>> ELSE Head(ss) \o Flatten(Tail(ss))

\* The errors the elements of v raise, were each visited, in visiting order.
RECURSIVE Failures(_)
Failures(v) ==
  IF v.type = "nil" THEN <<>>
  ELSE IF v.caps # {} THEN (IF v.fail = "" THEN <<>> ELSE <<[e |-> v.fail, T |-> ""]>>)
  ELSE IF Unsupported(v) THEN <<ErrUnsupportedType(v.type)>>
  ELSE IF Composite(v) THEN Flatten([k \in 1..Len(v.elems) |-> Failures(v.elems[k])])
  ELSE <<>>

\* The types of the unsupported elements of v, at any depth.
UnsupportedIn(v) == LET f == Failures(v) IN Flatten([k \in 1..Len(f) |-> IF f[k].e = "ErrUnsupportedType" THEN <<f[k].T>> ELSE <<>>])

\* An element's encoding and error, taken on its own.
Enc(e) == Bytes(AppendIntf(EmptyBuf, e).b)

ElemErr(e) == AppendIntf(EmptyBuf, e).err

IsMap(v) == v.type = "map[string]interface {}"

KeyEnc(v, k) == IF IsMap(v) THEN Bytes(AppendString(EmptyBuf, v.keys[k])) ELSE <<>>

CountHdr(v) == IF IsMap(v) THEN MapHdr(I64(Len(v.elems))) ELSE ArrayHdr(I64(Len(v.elems)))

\* Header, then the first n elements (each after its key, in a map).
EncUpTo(v, n) == CountHdr(v) \o Flatten([k \in 1..n |-> KeyEnc(v, k) \o Enc(v.elems[k])])

\* The first element of v that fails; 0 if none does.
FirstFailing(v) == IF \E k \in 1..Len(v.elems) : ElemErr(v.elems[k]) # NoErr THEN CHOOSE k \in 1..Len(v.elems) : ElemErr(v.elems[k]) # NoErr /\ \A j \in 1..(k - 1) : ElemErr(v.elems[j]) = NoErr ELSE 0

Called == last.op = "AppendIntf"

(***************************************************************************)
(* C2.  AppendIntf, given a *T with T a supported type, returns a nil      *)
(* error and the encoding of the pointed-to value, as its documentation    *)
(* lists.  The code has no rule for pointers: this statement is violated.  *)
(***************************************************************************)
C2_PointerAccepted ==
  (Called /\ last.arg.kind = "Ptr" /\ last.arg.caps = {} /\ Failures(last.arg.elems[1]) = <<>>) =>
    /\ last.err = NoErr
    /\ Bytes(buf) = Bytes(AppendIntf(prev, last.arg.elems[1]).b)

\* What the code does with such a pointer.
PointerRejected == (Called /\ last.arg.kind = "Ptr" /\ last.arg.caps = {}) => last.err = ErrUnsupportedType(last.arg.type) /\ Bytes(buf) = Bytes(prev)

(***************************************************************************)
(* C4.  As claimed: AppendIntf of a composite holding, at any depth,       *)
(* exactly one element of an unsupported type fails with                   *)
(* ErrUnsupportedType naming that element's type.  Violated when an        *)
(* element visited earlier fails in its own encoder.                       *)
(***************************************************************************)
C4_AsClaimed ==
  (Called /\ Composite(last.arg) /\ Len(UnsupportedIn(last.arg)) = 1) =>
    last.err = ErrUnsupportedType(UnsupportedIn(last.arg)[1])

(***************************************************************************)
(* C4, amended.  ... and no element visited before it fails in its own     *)
(* Marshaler or Extension encoder: then the call fails with                *)
(* ErrUnsupportedType naming that element's type, never the container's.   *)
(***************************************************************************)
C4_ErrorNamesElement ==
  (Called /\ Composite(last.arg) /\ Len(UnsupportedIn(last.arg)) = 1 /\ Failures(last.arg)[1].e = "ErrUnsupportedType") =>
    /\ last.err = ErrUnsupportedType(UnsupportedIn(last.arg)[1])
    /\ last.err.T # last.arg.type

\* The unsupported element sits two composites deep.
C4_Witness == Called /\ last.arg = IfaceSlice(<<IntV, IfaceSlice(<<IntV, ChanV>>)>>) /\ last.err = ErrUnsupportedType("chan int")

(***************************************************************************)
(* C5.  AppendIntf takes the first rule that matches, in the order nil,    *)
(* Marshaler, Extension, built-in kind, the two maps, []interface{},       *)
(* reflect array/slice, unsupported: a Marshaler is encoded by its own     *)
(* MarshalMsg, result and error verbatim, even if it is an Extension or    *)
(* sequence-shaped too; an Extension that is no Marshaler by               *)
(* AppendExtension, never by the reflect fallback.                         *)
(***************************************************************************)
C5_DispatchOrder ==
  Called =>
    LET v == last.arg IN
    /\ v.type = "nil" => (Appended = <<mnil>> /\ last.err = NoErr)
    /\ (v.type # "nil" /\ "Marshaler" \in v.caps) => (Bytes(buf) = Bytes(prev) \o v.out /\ last.err = MarshalMsg(v, prev).err)
    /\ (v.type # "nil" /\ "Extension" \in v.caps /\ "Marshaler" \notin v.caps) => (Bytes(buf) = Bytes(AppendExtension(prev, v).b) /\ last.err = AppendExtension(prev, v).err)
    /\ (v.caps = {} /\ v.type \in SwitchTypes /\ v.kind \notin {"Map", "Slice"}) => (last.err = NoErr /\ buf.len = prev.len + WireLen(buf.arr, prev.len))
    /\ (v.caps = {} /\ v.type = "[]uint8") => (last.err = NoErr /\ Appended = BinHdr(I64(Len(v.data))) \o v.data)
    /\ (v.caps = {} /\ v.type = "map[string]interface {}") => IsPrefix(Bytes(prev) \o MapHdr(I64(Len(v.elems))), Bytes(buf))
    /\ (v.caps = {} /\ v.type = "map[string]string") => (last.err = NoErr /\ Bytes(buf) = Bytes(AppendMapStrStr(prev, StrStrOf(v))))
    /\ (v.caps = {} /\ v.type = "[]interface {}") => IsPrefix(Bytes(prev) \o ArrayHdr(I64(Len(v.elems))), Bytes(buf))
    /\ ReflectSeq(v) => IsPrefix(Bytes(prev) \o ArrayHdr(I64(Len(v.elems))), Bytes(buf))
    /\ Unsupported(v) => (last.err = ErrUnsupportedType(v.type) /\ Bytes(buf) = Bytes(prev))

\* A failing Marshaler that is an Extension too has been encoded by MarshalMsg.
C5_Witness == Called /\ last.arg.type = "main.MEF" /\ last.err = [e |-> "errBoth", T |-> ""] /\ Appended = <<193, 3>>

(***************************************************************************)
(* C6.  A sequence the reflect fallback handles and a []interface{} with   *)
(* the same supported elements in the same order give byte-identical       *)
(* output on equal buffers: one array header with the element count, then  *)
(* each element's encoding in index order.                                 *)
(***************************************************************************)
C6_ReflectEqualsIface ==
  (Called /\ ReflectSeq(last.arg) /\ UnsupportedIn(last.arg) = <<>>) =>
    LET r == AppendIntf(prev, IfaceSlice(last.arg.elems)) IN
    /\ Bytes(buf) = Bytes(r.b)
    /\ last.err = r.err
    /\ last.err = NoErr => Appended = EncUpTo(last.arg, Len(last.arg.elems))

\* A named slice of an int and a string: header, int16 form, fixstr.
C6_Witness == Called /\ last.arg = NamedSlice(<<IntV, StringV>>) /\ last.err = NoErr /\ Appended = <<mfixarray + 2, mint16, 3, 232, mfixstr + 2, 98, 99>>

(***************************************************************************)
(* C10.  When an element of a composite fails, encoding stops there: the   *)
(* returned buffer is the input buffer, the composite's header and the     *)
(* complete encodings of the siblings visited before (and, in a map, the   *)
(* failing entry's key), followed by nothing but what the failing element  *)
(* itself left; the error is the first failing element's.                  *)
(***************************************************************************)
C10_AbortsAtFirstFailure ==
  ((Called \/ last.op = "AppendMapStrIntf") /\ Composite(last.arg) /\ FirstFailing(last.arg) # 0) =>
    LET v == last.arg
        j == FirstFailing(v)
        pre == Bytes(prev) \o EncUpTo(v, j - 1) \o KeyEnc(v, j)
    IN  /\ IsPrefix(pre, Bytes(buf))
        /\ buf.len = Len(pre) + Len(Enc(v.elems[j]))
        /\ last.err = ElemErr(v.elems[j])

\* A map whose first entry's Marshaler fails: header, key, the Marshaler's
\* partial output, and nothing of the second entry.
C10_Witness == last.op = "AppendMapStrIntf" /\ last.arg = IntfMap(<<FailingMarshalerV, IntV>>) /\ last.err = [e |-> "errMarshal", T |-> ""] /\ Appended = <<mfixmap + 2, mfixstr + 1, 98, 193>>

====
